---- MODULE Spec2Model ----
(***************************************************************************)
(* Model of the keycard service: the credential store (keycard/auth.go),   *)
(* the card-arrival state machine that drives it (keycard/service.go), the *)
(* tag detection in front of it (polling loop and event-driven tracker),   *)
(* and the indicator controller with its blink goroutines (keycard/led.go).*)
(*                                                                         *)
(* An identifier is a sequence of one-character strings, so that the       *)
(* conversions the code applies (hex encoding, strings.ToUpper,            *)
(* strings.TrimSpace) are computed character by character.  A file is a    *)
(* record [exists, lines]: the records fmt.Fprintln wrote, one per line.   *)
(***************************************************************************)
EXTENDS Integers, Sequences, FiniteSets, TLC

\* Number of distinct physical cards that are presented.
NumCards == 3

\* Largest number of I/O faults (failed os.Create, failed fmt.Fprintln, process
\* stop) in one behaviour.
MaxFaults == 1

\* Largest number of flash timers (time.AfterFunc) pending at the same time.
MaxTimers == 1

\* Number of distinct cards that are put on the reader when the detection
\* loop is modelled.
NumSeated == 2

\* Largest number of blink goroutines that StartBlink starts in one behaviour.
MaxBlinks == 2

\* Flash calls whose timers may be pending together on one controller.
MaxFlashes == 2

\* Longest record of a hand-edited file, in characters.
MaxLine == 5

\* Largest number of Close calls made on one controller.
MaxCloses == 2

VARIABLES
    masterUIDs,         \* AuthManager.masterUIDs
    authorizedUIDs,     \* AuthManager.authorizedUIDs
    masterFile,         \* <dataDir>/master_uids.txt
    authorizedFile,     \* <dataDir>/authorized_uids.txt
    alive,              \* FALSE after the process was stopped inside a call
    faults,             \* number of I/O faults so far
    failedCalls,        \* some store call returned an error or was cut short
    call,               \* the store call of the last step: operation, results
    pre,                \* the in-memory store as it was before the last step
    masterLearningMode, \* Service.masterLearningMode
    learnMode,          \* Service.learnMode
    newUIDs,            \* Service.newUIDs
    rgbLed,             \* colour shown by the RGB indicator
    blinking,           \* LP5662.blinking
    blinkTask,          \* the blink goroutine: "none", "running", "stopping"
    blinkState,         \* the blink goroutine's local variable state
    offTimers,          \* number of pending time.AfterFunc(.., Off) timers
    linearLed,          \* linear lamps Led3/Led7 lit
    published,          \* PublishAuth calls made by the last step
    running,            \* Service.Run has passed its start-up section
    arrival,            \* the arrival the last step handled: identifier, branch
    seated,             \* the tag in the reader's field, <<>> when there is none
    pc,                 \* polling loop: "poll" in Run's loop, "wait" in waitForTagDeparture
    currentCardUID,     \* Service.currentCardUID (event-driven detection)
    detect,             \* outcome of the last step's detection call or event
    handledSeated,      \* the seated tag has reached handleTagArrival since it was put down
    blinkStop,          \* LEDController.blinkStop: channel number, 0 for nil
    closedChans,        \* the channels that close() was called on
    tasks,              \* the blink goroutines, in the order StartBlink started them
    quiet,              \* StopBlink has returned and nothing was switched on since
    lastCtl,            \* the controller call or goroutine step the last step was
    backend,            \* the RGBLed implementation: "script" (LEDController) or "lp5662"
    fd,                 \* LP5662.fd: "open" or "closed"; "none" for the script backend
    closes,             \* number of Close calls made on the controller
    mu,                 \* holder of the controller's mutex, or "free"
    devOps,             \* per caller: the colour of its device write in progress, or "idle"
    ctxDone,            \* Service.cancel has been called: ctx.Done() is closed
    stopPc,             \* Service.Stop: "idle", "close" (after cancel) or "done"
    exited              \* Run has returned and main with it: the process is gone

storeVars == <<masterUIDs, authorizedUIDs, masterFile, authorizedFile, alive,
               faults, failedCalls, call, pre>>
serviceVars == <<masterLearningMode, learnMode, newUIDs, rgbLed, blinking,
                 blinkTask, blinkState, offTimers, linearLed, published, running, arrival>>
detectVars == <<seated, pc, currentCardUID, detect, handledSeated>>
vars == <<masterUIDs, authorizedUIDs, masterFile, authorizedFile, alive,
          faults, failedCalls, call, pre, masterLearningMode, learnMode, newUIDs, rgbLed, blinking,
          blinkTask, blinkState, offTimers, linearLed, published, running, arrival,
          seated, pc, currentCardUID, detect, handledSeated,
          blinkStop, closedChans, tasks, quiet, lastCtl, backend, fd, closes,
          mu, devOps, ctxDone, stopPc, exited>>
lifeVars == <<ctxDone, stopPc, exited>>
ctlVars == <<blinkStop, closedChans, tasks, quiet, lastCtl, backend, fd, closes,
             mu, devOps>>

----------------------------------------------------------------------------
(* Identifiers and the string conversions.                                 *)

HexDigits ==
    <<"0", "1", "2", "3", "4", "5", "6", "7", "8", "9",
      "a", "b", "c", "d", "e", "f">>

\* hex.EncodeToString: two lower-case hex digits per byte.
RECURSIVE EncodeToString(_)
EncodeToString(bytes) ==
    IF bytes = <<>> THEN <<>>
    ELSE <<HexDigits[(Head(bytes) \div 16) + 1],
           HexDigits[(Head(bytes) % 16) + 1]>> \o EncodeToString(Tail(bytes))

UpperChar(c) ==
    CASE c = "a" -> "A" [] c = "b" -> "B" [] c = "c" -> "C"
      [] c = "d" -> "D" [] c = "e" -> "E" [] c = "f" -> "F"
      [] OTHER -> c

\* strings.ToUpper
ToUpper(s) == [i \in 1..Len(s) |-> UpperChar(s[i])]

IsSpace(c) == c \in {" ", "\t", "\r"}

\* strings.TrimSpace: drops leading and trailing white space only.
TrimSpace(s) ==
    LET keep == {i \in 1..Len(s) : ~IsSpace(s[i])}
        lo == CHOOSE i \in keep : \A j \in keep : i <= j
        hi == CHOOSE i \in keep : \A j \in keep : j <= i
    IN  IF keep = {} THEN <<>> ELSE SubSeq(s, lo, hi)

\* The tag IDs the reader reports: one byte each, 0xAA, 0xAB, ...
TagIDs == {<<169 + i>> : i \in 1..NumCards}

\* The identifier handleTagArrival receives (service.go:178).
TagUID(id) == ToUpper(EncodeToString(id))

\* The identifiers callers pass to the store: the service passes TagUID, the
\* tests also pass the lower-case spelling of the same identifier.
UIDs == {EncodeToString(id) : id \in TagIDs} \cup {TagUID(id) : id \in TagIDs}

Range(s) == {s[i] : i \in 1..Len(s)}

----------------------------------------------------------------------------
(* The files.                                                              *)

NoFile == [exists |-> FALSE, lines |-> <<>>]

\* The records of list whose fmt.Fprintln succeeded (ok: their indices).
WrittenLines(list, ok) ==
    LET F[i \in 0..Len(list)] ==
            IF i = 0 THEN <<>>
            ELSE IF i \in ok THEN Append(F[i - 1], list[i]) ELSE F[i - 1]
    IN  F[Len(list)]

\* The outcomes of saveMasterUIDs / saveAuthorizedUIDs on a file: os.Create
\* fails (error returned, file untouched), or the file is truncated and each
\* record is written by an fmt.Fprintln whose error the code ignores.
SaveOutcomes(file, list) ==
    {[err |-> TRUE, fault |-> 1, file |-> file]} \cup
    {[err |-> FALSE, fault |-> IF ok = 1..Len(list) THEN 0 ELSE 1,
      file |-> [exists |-> TRUE, lines |-> WrittenLines(list, ok)]] :
        ok \in SUBSET (1..Len(list))}

saveMasterUIDs(file, list) == SaveOutcomes(file, list)

saveAuthorizedUIDs(file, list) == SaveOutcomes(file, list)

\* The scanner loop shared by loadMasterUIDs and loadAuthorizedUIDs.
LoadLines(file) ==
    LET trimmed == [i \in 1..Len(file.lines) |-> TrimSpace(file.lines[i])]
        nonEmpty == SelectSeq(trimmed, LAMBDA l : l /= <<>>)
    IN  IF file.exists THEN [i \in 1..Len(nonEmpty) |-> ToUpper(nonEmpty[i])]
        ELSE <<>>

loadMasterUIDs(file) == LoadLines(file)

loadAuthorizedUIDs(file) == LoadLines(file)

\* The records a hand-edited file may hold: hex digits and blanks.
EditedLines ==
    UNION {[1..n -> {"A", "B", " "}] : n \in 0..MaxLine}

\* A file holding the one record l.
EditedFile(l) == [exists |-> TRUE, lines |-> <<l>>]

----------------------------------------------------------------------------
(* The store's queries.                                                    *)

HasMaster == Len(masterUIDs) > 0

IsMaster(uid) == \E i \in 1..Len(masterUIDs) : masterUIDs[i] = ToUpper(uid)

IsAuthorized(uid) ==
    \/ \E i \in 1..Len(masterUIDs) : masterUIDs[i] = ToUpper(uid)
    \/ \E i \in 1..Len(authorizedUIDs) : authorizedUIDs[i] = ToUpper(uid)

GetAuthorizedCount == Len(authorizedUIDs)

Memory == [master |-> masterUIDs, authorized |-> authorizedUIDs]

NoCall == [op |-> "none", uid |-> <<>>, ret |-> FALSE, err |-> FALSE]

----------------------------------------------------------------------------
(* The store's mutations, as relations between the state before and after. *)

\* Mutant: SetMaster stores the identifier as given, without strings.ToUpper.
MasterAfterSetMasterRaw(uid) == <<uid>>

\* SetMaster's assignment to masterUIDs.
MasterAfterSetMaster(uid) == <<ToUpper(uid)>>

\* Mutant: SetMaster leaves the authorized list as it was.
AuthorizedAfterSetMasterKept(old) == old

\* SetMaster's assignment to authorizedUIDs (old: the list before the call).
AuthorizedAfterSetMaster(old) == <<>>

\* Mutant: AddAuthorized without the scan of masterUIDs.
IsKnownUIDAuthorizedOnly(uid) == ToUpper(uid) \in Range(authorizedUIDs)

\* Mutant: AddAuthorized without the scan of authorizedUIDs.
IsKnownUIDMasterOnly(uid) == ToUpper(uid) \in Range(masterUIDs)

\* AddAuthorized's two scans: uid is the master or is already authorized.
IsKnownUID(uid) ==
    \/ ToUpper(uid) \in Range(masterUIDs)
    \/ ToUpper(uid) \in Range(authorizedUIDs)

\* AddAuthorized's first result when it found uid, and when it appended uid.
RetKnown == FALSE

\* Mutant: AddAuthorized reports FALSE for an identifier it appended.
RetAddedSwapped == FALSE

RetAdded == TRUE

\* AuthManager.SetMaster: memory is assigned first, then the two saves run.
SetMasterStep(uid) ==
    /\ masterUIDs' = MasterAfterSetMaster(uid)
    /\ authorizedUIDs' = AuthorizedAfterSetMaster(authorizedUIDs)
    /\ pre' = Memory
    /\ \E m \in saveMasterUIDs(masterFile, masterUIDs') :
          /\ masterFile' = m.file
          /\ IF m.err
             THEN /\ authorizedFile' = authorizedFile
                  /\ faults' = faults + m.fault
                  /\ call' = [op |-> "SetMaster", uid |-> uid,
                              ret |-> FALSE, err |-> TRUE]
             ELSE \E a \in saveAuthorizedUIDs(authorizedFile, authorizedUIDs') :
                      /\ authorizedFile' = a.file
                      /\ faults' = faults + m.fault + a.fault
                      /\ call' = [op |-> "SetMaster", uid |-> uid,
                                  ret |-> FALSE, err |-> a.err]
    /\ faults' <= MaxFaults
    /\ failedCalls' = (failedCalls \/ call'.err)

\* AuthManager.AddAuthorized.
AddAuthorizedStep(uid) ==
    /\ pre' = Memory
    /\ masterUIDs' = masterUIDs
    /\ IF IsKnownUID(uid)
       THEN /\ authorizedUIDs' = authorizedUIDs
            /\ authorizedFile' = authorizedFile
            /\ faults' = faults
            /\ call' = [op |-> "AddAuthorized", uid |-> uid,
                        ret |-> RetKnown, err |-> FALSE]
       ELSE /\ authorizedUIDs' = Append(authorizedUIDs, ToUpper(uid))
            /\ \E a \in saveAuthorizedUIDs(authorizedFile, authorizedUIDs') :
                  /\ authorizedFile' = a.file
                  /\ faults' = faults + a.fault
                  /\ call' = [op |-> "AddAuthorized", uid |-> uid,
                              ret |-> RetAdded, err |-> a.err]
    /\ faults' <= MaxFaults
    /\ failedCalls' = (failedCalls \/ call'.err)
    /\ masterFile' = masterFile

\* A caller (a test, an operator tool) calls SetMaster on the store.
SetMaster(uid) ==
    /\ alive
    /\ SetMasterStep(uid)
    /\ UNCHANGED <<alive, serviceVars, detectVars, ctlVars, lifeVars>>

\* A caller calls AddAuthorized on the store.
AddAuthorized(uid) ==
    /\ alive
    /\ AddAuthorizedStep(uid)
    /\ UNCHANGED <<alive, serviceVars, detectVars, ctlVars, lifeVars>>

\* The process is stopped inside SetMaster, between saveMasterUIDs and
\* saveAuthorizedUIDs: the master file is rewritten, the other is not.
SetMasterKilled(uid) ==
    /\ alive
    /\ alive' = FALSE
    /\ pre' = Memory
    /\ masterUIDs' = MasterAfterSetMaster(uid)
    /\ authorizedUIDs' = AuthorizedAfterSetMaster(authorizedUIDs)
    /\ failedCalls' = TRUE
    /\ \E m \in saveMasterUIDs(masterFile, masterUIDs') :
          /\ ~m.err
          /\ masterFile' = m.file
          /\ faults' = faults + m.fault + 1
    /\ faults' <= MaxFaults
    /\ authorizedFile' = authorizedFile
    /\ call' = [op |-> "SetMasterKilled", uid |-> uid, ret |-> FALSE, err |-> TRUE]
    /\ UNCHANGED <<serviceVars, detectVars, ctlVars, lifeVars>>

\* NewAuthManager on the same directory: a fresh store loaded from the files.
NewAuthManager ==
    /\ alive' = TRUE
    /\ pre' = Memory
    /\ masterUIDs' = loadMasterUIDs(masterFile)
    /\ authorizedUIDs' = loadAuthorizedUIDs(authorizedFile)
    /\ call' = [op |-> "NewAuthManager", uid |-> <<>>, ret |-> FALSE, err |-> FALSE]
    /\ UNCHANGED <<masterFile, authorizedFile, faults, failedCalls,
                   serviceVars, detectVars, ctlVars, lifeVars>>

----------------------------------------------------------------------------

\* The callers of the indicator's device operations: the Run goroutine's
\* handlers, the blink goroutine and the flash timer callbacks; and the
\* colours each of them writes.
TimerNames == <<"timer1", "timer2", "timer3", "timer4">>

Callers == {"main", "blink"} \cup {TimerNames[k] : k \in 1..MaxFlashes}

Colours(a) ==
    CASE a = "main" -> IF backend = "lp5662"
                       THEN {"green", "off", "amber", "red"}
                       ELSE {"green", "off"}
      [] a = "blink" -> {"green", "off"}
      [] OTHER -> {"off"}

NoArrival == [uid |-> <<>>, branch |-> "none"]

\* No store call made yet, and a Service not yet running.
InitService ==
    /\ faults = 0
    /\ failedCalls = FALSE
    /\ call = NoCall
    /\ pre = [master |-> <<>>, authorized |-> <<>>]
    /\ masterLearningMode = FALSE
    /\ learnMode = FALSE
    /\ newUIDs = <<>>
    /\ rgbLed = "off"
    /\ blinking = FALSE
    /\ blinkTask = "none"
    /\ blinkState = FALSE
    /\ offTimers = 0
    /\ linearLed = FALSE
    /\ published = <<>>
    /\ running = FALSE
    /\ arrival = NoArrival
    /\ seated = <<>>
    /\ pc = "poll"
    /\ currentCardUID = <<>>
    /\ detect = "none"
    /\ handledSeated = FALSE
    /\ blinkStop = 0
    /\ closedChans = {}
    /\ tasks = <<>>
    /\ quiet = FALSE
    /\ lastCtl = "none"
    /\ closes = 0
    /\ mu = "free"
    /\ devOps = [a \in Callers |-> "idle"]
    /\ ctxDone = FALSE
    /\ stopPc = "idle"
    /\ exited = FALSE

\* NewAuthManager on an empty data directory, and a Service not yet running.
Init ==
    /\ masterFile = NoFile
    /\ authorizedFile = NoFile
    /\ masterUIDs = loadMasterUIDs(masterFile)
    /\ authorizedUIDs = loadAuthorizedUIDs(authorizedFile)
    /\ alive = TRUE
    /\ InitService
    /\ backend = "lp5662"
    /\ fd = "open"

\* A step of the service that makes no store call.
StoreIdle ==
    /\ call' = NoCall
    /\ pre' = Memory
    /\ UNCHANGED <<masterUIDs, authorizedUIDs, masterFile, authorizedFile,
                   alive, faults, failedCalls>>

\* A step that is no detection call and no tag event, and moves no tag.
DetectIdle ==
    /\ detect' = "none"
    /\ UNCHANGED <<seated, pc, currentCardUID, handledSeated>>
    /\ UNCHANGED <<ctlVars, lifeVars>>

----------------------------------------------------------------------------
(* The service: start-up and the handling of one logical card arrival.     *)

\* Mutant: Run enters its loop without looking at HasMaster.
RunSkipsMasterCheck ==
    /\ alive
    /\ ~running
    /\ running' = TRUE
    /\ StoreIdle
    /\ DetectIdle
    /\ UNCHANGED <<masterLearningMode, blinking, blinkTask, blinkState,
                   learnMode, newUIDs, rgbLed, offTimers, linearLed,
                   published, arrival>>

\* Service.Run up to its loop: without a master, enterMasterLearningMode.
Run ==
    /\ alive
    /\ ~running
    /\ running' = TRUE
    /\ IF ~HasMaster
       THEN /\ masterLearningMode' = TRUE
            /\ blinking' = TRUE
            /\ blinkTask' = "running"
            /\ blinkState' = FALSE
       ELSE UNCHANGED <<masterLearningMode, blinking, blinkTask, blinkState>>
    /\ StoreIdle
    /\ DetectIdle
    /\ UNCHANGED <<learnMode, newUIDs, rgbLed, offTimers, linearLed,
                   published, arrival>>

\* Service.learnMasterUID, after Amber().
learnMasterUID(uid) ==
    /\ SetMasterStep(uid)
    /\ IF call'.err
       THEN /\ arrival' = [uid |-> uid, branch |-> "learnMasterFailed"]
            /\ rgbLed' = "amber"
            /\ UNCHANGED <<masterLearningMode, blinking, blinkTask, offTimers>>
       ELSE /\ arrival' = [uid |-> uid, branch |-> "learnMaster"]
            /\ masterLearningMode' = FALSE
            /\ blinking' = FALSE
            /\ blinkTask' = IF blinking THEN "stopping" ELSE blinkTask
            /\ rgbLed' = "green"
            /\ offTimers' = offTimers + 1
    /\ published' = <<>>
    /\ UNCHANGED <<alive, learnMode, newUIDs, blinkState, linearLed>>

\* Mutant: the master presented in Normal mode is also notified as a grant.
enterLearnModePublishes(uid) ==
    /\ arrival' = [uid |-> uid, branch |-> "enterLearnMode"]
    /\ learnMode' = TRUE
    /\ newUIDs' = <<>>
    /\ linearLed' = TRUE
    /\ rgbLed' = "amber"
    /\ published' = <<uid>>
    /\ StoreIdle
    /\ UNCHANGED <<masterLearningMode, blinking, blinkTask,
                   blinkState, offTimers>>

\* Service.enterLearnMode, after Amber().
enterLearnMode(uid) ==
    /\ arrival' = [uid |-> uid, branch |-> "enterLearnMode"]
    /\ learnMode' = TRUE
    /\ newUIDs' = <<>>
    /\ linearLed' = TRUE
    /\ rgbLed' = "amber"
    /\ published' = <<>>
    /\ StoreIdle
    /\ UNCHANGED <<masterLearningMode, blinking, blinkTask,
                   blinkState, offTimers>>

\* Mutant: the master presented in CardLearning leaves the mode as it is.
exitLearnModeStays(uid) ==
    /\ arrival' = [uid |-> uid, branch |-> "exitLearnMode"]
    /\ learnMode' = learnMode
    /\ newUIDs' = <<>>
    /\ linearLed' = FALSE
    /\ rgbLed' = "amber"
    /\ published' = <<>>
    /\ StoreIdle
    /\ UNCHANGED <<masterLearningMode, blinking, blinkTask,
                   blinkState, offTimers>>

\* Service.exitLearnMode, after Amber().
exitLearnMode(uid) ==
    /\ arrival' = [uid |-> uid, branch |-> "exitLearnMode"]
    /\ learnMode' = FALSE
    /\ newUIDs' = <<>>
    /\ linearLed' = FALSE
    /\ rgbLed' = "amber"
    /\ published' = <<>>
    /\ StoreIdle
    /\ UNCHANGED <<masterLearningMode, blinking, blinkTask,
                   blinkState, offTimers>>

\* Mutant: grantAccess calls PublishAuth a second time when it failed.
grantAccessRetries(uid) ==
    /\ \E publishErr \in BOOLEAN :
          /\ arrival' = [uid |-> uid,
                         branch |-> IF publishErr THEN "grantAccessPublishFailed"
                                    ELSE "grantAccess"]
          /\ published' = IF publishErr THEN <<uid, uid>> ELSE <<uid>>
    /\ rgbLed' = "green"
    /\ offTimers' = offTimers + 1
    /\ StoreIdle
    /\ UNCHANGED <<masterLearningMode, learnMode, newUIDs, blinking,
                   blinkTask, blinkState, linearLed>>

\* Service.grantAccess, after Amber(): Flash, then PublishAuth, whose error
\* is only logged.
grantAccess(uid) ==
    /\ \E publishErr \in BOOLEAN :
          arrival' = [uid |-> uid,
                      branch |-> IF publishErr THEN "grantAccessPublishFailed"
                                 ELSE "grantAccess"]
    /\ rgbLed' = "green"
    /\ offTimers' = offTimers + 1
    /\ published' = <<uid>>
    /\ StoreIdle
    /\ UNCHANGED <<masterLearningMode, learnMode, newUIDs, blinking,
                   blinkTask, blinkState, linearLed>>

\* Mutant: the unauthorized branch flashes the granted colour.
denyAccessGreen(uid) ==
    /\ arrival' = [uid |-> uid, branch |-> "unauthorized"]
    /\ rgbLed' = "green"
    /\ offTimers' = offTimers + 1
    /\ published' = <<>>
    /\ StoreIdle
    /\ UNCHANGED <<masterLearningMode, learnMode, newUIDs, blinking,
                   blinkTask, blinkState, linearLed>>

\* The unauthorized branch of handleTagArrival: Red(), and an Off timer.
denyAccess(uid) ==
    /\ arrival' = [uid |-> uid, branch |-> "unauthorized"]
    /\ rgbLed' = "red"
    /\ offTimers' = offTimers + 1
    /\ published' = <<>>
    /\ StoreIdle
    /\ UNCHANGED <<masterLearningMode, learnMode, newUIDs, blinking,
                   blinkTask, blinkState, linearLed>>

\* Mutant: learnUID records and flashes whatever AddAuthorized reported.
learnUIDIgnoresAdded(uid) ==
    /\ AddAuthorizedStep(uid)
    /\ IF call'.err
       THEN /\ arrival' = [uid |-> uid, branch |-> "learnUIDFailed"]
            /\ rgbLed' = "amber"
            /\ UNCHANGED <<newUIDs, offTimers>>
       ELSE /\ arrival' = [uid |-> uid,
                           branch |-> IF call'.ret THEN "learnUIDAdded"
                                      ELSE "learnUIDKnown"]
            /\ newUIDs' = Append(newUIDs, uid)
            /\ rgbLed' = "green"
            /\ offTimers' = offTimers + 1
    /\ published' = <<>>
    /\ UNCHANGED <<alive, masterLearningMode, learnMode, blinking, blinkTask,
                   blinkState, linearLed>>

\* Service.learnUID, after Amber().
learnUID(uid) ==
    /\ AddAuthorizedStep(uid)
    /\ IF call'.err
       THEN /\ arrival' = [uid |-> uid, branch |-> "learnUIDFailed"]
            /\ rgbLed' = "amber"
            /\ UNCHANGED <<newUIDs, offTimers>>
       ELSE IF call'.ret
       THEN /\ arrival' = [uid |-> uid, branch |-> "learnUIDAdded"]
            /\ newUIDs' = Append(newUIDs, uid)
            /\ rgbLed' = "green"
            /\ offTimers' = offTimers + 1
       ELSE /\ arrival' = [uid |-> uid, branch |-> "learnUIDKnown"]
            /\ rgbLed' = "amber"
            /\ UNCHANGED <<newUIDs, offTimers>>
    /\ published' = <<>>
    /\ UNCHANGED <<alive, masterLearningMode, learnMode, blinking, blinkTask,
                   blinkState, linearLed>>

\* handleTagArrival as it would be if a card that is not authorized were
\* enrolled in Normal mode too.
handleTagArrivalEnrolsInNormal(id) ==
    /\ alive
    /\ running
    /\ running' = running
    /\ offTimers < MaxTimers
    /\ LET uid == TagUID(id)
       IN  IF masterLearningMode THEN learnMasterUID(uid)
           ELSE IF ~learnMode
           THEN IF IsMaster(uid) THEN enterLearnMode(uid)
                ELSE IF IsAuthorized(uid) THEN grantAccess(uid)
                ELSE learnUID(uid)
           ELSE IF IsMaster(uid) THEN exitLearnMode(uid)
                ELSE learnUID(uid)

\* Service.handleTagArrival for the tag the reader reports.
handleTagArrival(id) ==
    /\ alive
    /\ running
    /\ running' = running
    /\ offTimers < MaxTimers
    /\ LET uid == TagUID(id)
       IN  IF masterLearningMode THEN learnMasterUID(uid)
           ELSE IF ~learnMode
           THEN IF IsMaster(uid) THEN enterLearnMode(uid)
                ELSE IF IsAuthorized(uid) THEN grantAccess(uid)
                ELSE denyAccess(uid)
           ELSE IF IsMaster(uid) THEN exitLearnMode(uid)
                ELSE learnUID(uid)

\* The indicator after a device write of colour c: execScript, or writeReg
\* on LP5662.fd, which fails on a closed descriptor and changes nothing.
Written(c) == IF fd = "closed" THEN rgbLed ELSE c

\* A flash timer fires: the time.AfterFunc callback calls Off().
FlashTimer ==
    /\ offTimers > 0
    /\ offTimers' = offTimers - 1
    /\ rgbLed' = Written("off")
    /\ StoreIdle
    /\ UNCHANGED <<masterLearningMode, learnMode, newUIDs, blinking,
                   blinkTask, blinkState, linearLed, running>>
    /\ published' = <<>>
    /\ arrival' = NoArrival
    /\ DetectIdle

\* The blink goroutine's ticker case: toggle between On() and Off().
BlinkTick ==
    /\ blinkTask = "running"
    /\ rgbLed' = Written(IF blinkState THEN "off" ELSE "green")
    /\ blinkState' = ~blinkState
    /\ StoreIdle
    /\ UNCHANGED <<masterLearningMode, learnMode, newUIDs, blinking,
                   blinkTask, offTimers, linearLed, running>>
    /\ published' = <<>>
    /\ arrival' = NoArrival
    /\ DetectIdle

\* The blink goroutine's blinkStop case: Off(), and the goroutine returns.
BlinkExit ==
    /\ blinkTask = "stopping"
    /\ blinkTask' = "none"
    /\ rgbLed' = Written("off")
    /\ StoreIdle
    /\ UNCHANGED <<masterLearningMode, learnMode, newUIDs, blinking,
                   blinkState, offTimers, linearLed, running>>
    /\ published' = <<>>
    /\ arrival' = NoArrival
    /\ DetectIdle

\* Before the process starts: the data directory holds files written by
\* hand, each absent or holding one record; nothing is loaded yet.
InitEdited ==
    /\ \E l \in EditedLines :
          /\ masterFile \in {NoFile, EditedFile(l)}
          /\ authorizedFile \in {NoFile, EditedFile(l)}
    /\ masterUIDs = <<>>
    /\ authorizedUIDs = <<>>
    /\ alive = FALSE
    /\ InitService
    /\ backend = "lp5662"
    /\ fd = "open"

\* NewAuthManager on a directory of hand-edited files.
SpecEdited == InitEdited /\ [][NewAuthManager]_vars

NextStore ==
    \/ \E uid \in UIDs : SetMaster(uid)
    \/ \E uid \in UIDs : AddAuthorized(uid)
    \/ \E uid \in UIDs : SetMasterKilled(uid)
    \/ NewAuthManager

\* The store driven through its API, with process stops and reloads.
SpecStore == Init /\ [][NextStore]_vars

NextCalls ==
    \/ \E uid \in UIDs : SetMaster(uid)
    \/ \E uid \in UIDs : AddAuthorized(uid)

\* One store, from an empty directory, driven by SetMaster and AddAuthorized.
SpecCalls == Init /\ [][NextCalls]_vars

----------------------------------------------------------------------------
(* Properties of the credential store.                                     *)

\* Two identifiers are the same when compared without regard to case.
EqualFold(a, b) ==
    /\ Len(a) = Len(b)
    /\ \A i \in 1..Len(a) : UpperChar(a[i]) = UpperChar(b[i])

\* uid was the master, or on the authorized list, before the last call.
WasMaster(uid) == \E i \in 1..Len(pre.master) : EqualFold(uid, pre.master[i])

WasOnList(uid) ==
    \E i \in 1..Len(pre.authorized) : EqualFold(uid, pre.authorized[i])

\* C1: after a SetMaster(m) that returned no error the authorized count is
\* 0, m is the master, no other identifier that was master still is, and no
\* identifier that was authorized, other than m, is authorized any more.
C1_SetMasterRevokesAll ==
    (call.op = "SetMaster" /\ ~call.err) =>
        /\ GetAuthorizedCount = 0
        /\ IsMaster(call.uid)
        /\ \A id \in UIDs :
              (WasMaster(id) /\ ~EqualFold(id, call.uid)) => ~IsMaster(id)
        /\ \A id \in UIDs :
              (WasOnList(id) /\ ~EqualFold(id, call.uid)) => ~IsAuthorized(id)

\* A changeover from one master to another with two cards authorized.
C1_Witness ==
    /\ call.op = "SetMaster"
    /\ ~call.err
    /\ Len(pre.authorized) >= 2
    /\ Len(pre.master) = 1
    /\ ~EqualFold(pre.master[1], call.uid)

\* C2: IsMaster(id) holds exactly for the identifiers that equal the master
\* in memory when compared without regard to case; for none without master.
C2_IsMasterIffEqualFold ==
    \A id \in UIDs :
        IsMaster(id) <=> \E i \in 1..Len(masterUIDs) : EqualFold(id, masterUIDs[i])

\* A master enrolled under its lower-case spelling, queried in upper case.
C2_Witness ==
    /\ call.op = "SetMaster"
    /\ call.uid /= ToUpper(call.uid)
    /\ IsMaster(ToUpper(call.uid))
    /\ \E id \in UIDs : ~IsMaster(id)

\* C3: in a store driven from empty by SetMaster and AddAuthorized, the
\* master is authorized, is not on the authorized list, and the list holds
\* no identifier twice.
C3_MasterNotOnList ==
    /\ \A i \in 1..Len(masterUIDs) :
          /\ IsAuthorized(masterUIDs[i])
          /\ \A j \in 1..Len(authorizedUIDs) :
                ~EqualFold(masterUIDs[i], authorizedUIDs[j])
    /\ \A j, k \in 1..Len(authorizedUIDs) :
          EqualFold(authorizedUIDs[j], authorizedUIDs[k]) => j = k

\* AddAuthorized was called with the master while two cards are authorized.
C3_Witness ==
    /\ call.op = "AddAuthorized"
    /\ HasMaster
    /\ EqualFold(call.uid, masterUIDs[1])
    /\ Len(authorizedUIDs) >= 2

\* C4: an AddAuthorized(id) that directly follows an AddAuthorized(id) that
\* returned no error leaves the authorized list unchanged and reports, with
\* no error, that nothing was added.
C4_AddAuthorizedIdempotent ==
    [][(/\ call.op = "AddAuthorized"
        /\ ~call.err
        /\ call'.op = "AddAuthorized"
        /\ EqualFold(call'.uid, call.uid))
       => (/\ authorizedUIDs' = authorizedUIDs
           /\ Len(authorizedUIDs') = Len(authorizedUIDs)
           /\ ~call'.ret
           /\ ~call'.err)]_vars

\* The state after such a second call: the identifier was on the list before
\* the call, under the other spelling, and the call changed nothing.
C4_Witness ==
    /\ call.op = "AddAuthorized"
    /\ ~call.ret
    /\ ~call.err
    /\ WasOnList(call.uid)
    /\ call.uid \notin Range(pre.authorized)
    /\ pre = Memory

\* C5 as stated: the result of AddAuthorized is TRUE exactly when the
\* identifier was the master or already on the list.
C5_AlreadyPresentFlag ==
    call.op = "AddAuthorized" =>
        (call.ret <=> (WasMaster(call.uid) \/ WasOnList(call.uid)))

\* C5 amended: the result of AddAuthorized is an "added" flag.  It is FALSE
\* exactly when the identifier was the master or already on the list, and
\* then memory is unchanged and no error is returned; it is TRUE exactly when
\* the identifier was appended to the list in memory.
C5_AddedFlag ==
    call.op = "AddAuthorized" =>
        /\ ~call.ret <=> (WasMaster(call.uid) \/ WasOnList(call.uid))
        /\ ~call.ret => (Memory = pre /\ ~call.err)
        /\ call.ret <=>
              /\ authorizedUIDs = Append(pre.authorized, ToUpper(call.uid))
              /\ masterUIDs = pre.master

\* AddAuthorized appended a third identifier and saved without error.
C5_Witness ==
    /\ call.op = "AddAuthorized"
    /\ call.ret
    /\ ~call.err
    /\ Len(authorizedUIDs) = 2
    /\ HasMaster

\* C7: a store loaded by NewAuthManager, after calls that all returned no
\* error, has the master, the authorized set and the authorized count that
\* the store in memory had.
C7_ReloadRoundTrip ==
    (call.op = "NewAuthManager" /\ ~failedCalls) =>
        /\ Range(masterUIDs) = Range(pre.master)
        /\ Range(authorizedUIDs) = Range(pre.authorized)
        /\ Len(authorizedUIDs) = Len(pre.authorized)

\* C8: a SetMaster or AddAuthorized that returned an error left the master
\* and the authorized list in memory as they were, so every query answers as
\* before the call.
C8_FailedCallKeepsMemory ==
    (call.op \in {"SetMaster", "AddAuthorized"} /\ call.err) =>
        /\ HasMaster <=> (Len(pre.master) > 0)
        /\ GetAuthorizedCount = Len(pre.authorized)
        /\ \A id \in UIDs :
              /\ IsMaster(id) <=> WasMaster(id)
              /\ IsAuthorized(id) <=> (WasMaster(id) \/ WasOnList(id))

\* C9: when SetMaster or AddAuthorized returns no error, the two files hold
\* the master and the authorized list that are in memory.
C9_SuccessMeansPersisted ==
    (call.op \in {"SetMaster", "AddAuthorized"} /\ ~call.err) =>
        /\ loadMasterUIDs(masterFile) = masterUIDs
        /\ loadAuthorizedUIDs(authorizedFile) = authorizedUIDs

\* C10: a SetMaster that replaces the master on disk by another one leaves on
\* disk none of the identifiers that were authorized on disk before it,
\* whether it returns, fails, or is cut short between its two writes.
C10_AtomicChangeover ==
    [][(/\ call'.op \in {"SetMaster", "SetMasterKilled"}
        /\ Len(loadMasterUIDs(masterFile)) > 0
        /\ loadMasterUIDs(masterFile') = <<ToUpper(call'.uid)>>
        /\ loadMasterUIDs(masterFile') /= loadMasterUIDs(masterFile))
       => Range(loadAuthorizedUIDs(authorizedFile'))
             \cap Range(loadAuthorizedUIDs(authorizedFile)) = {}]_vars

----------------------------------------------------------------------------
(* Properties of the service.                                              *)

\* C6: in learnUID, AddAuthorized returns TRUE exactly when the identifier
\* was neither the master nor on the list, and then appends it; when it
\* returns FALSE it returns no error and changes nothing; the handler appends
\* to newUIDs and flashes only when the result was TRUE, and always when the
\* result was TRUE without error.
C6_LearnUIDActsOnAdded ==
    [][arrival'.branch \in {"learnUIDFailed", "learnUIDAdded", "learnUIDKnown"} =>
        LET uid == arrival'.uid
            known ==
                \/ \E i \in 1..Len(masterUIDs) : EqualFold(uid, masterUIDs[i])
                \/ \E i \in 1..Len(authorizedUIDs) : EqualFold(uid, authorizedUIDs[i])
        IN  /\ call'.op = "AddAuthorized"
            /\ call'.uid = uid
            /\ call'.ret <=> ~known
            /\ call'.ret => authorizedUIDs' = Append(authorizedUIDs, ToUpper(uid))
            /\ ~call'.ret =>
                  /\ ~call'.err
                  /\ authorizedUIDs' = authorizedUIDs
                  /\ masterUIDs' = masterUIDs
            /\ (newUIDs' /= newUIDs \/ offTimers' /= offTimers \/ rgbLed' = "green")
                  => call'.ret
            /\ (call'.ret /\ ~call'.err) =>
                  /\ newUIDs' = Append(newUIDs, uid)
                  /\ rgbLed' = "green"
                  /\ offTimers' = offTimers + 1]_vars

\* learnUID has just added a second card in one learning session.
C6_Witness ==
    /\ arrival.branch = "learnUIDAdded"
    /\ call.ret
    /\ Len(newUIDs) = 2
    /\ rgbLed = "green"

\* learnUID has just been given a card that was already authorized.
C6_WitnessKnown ==
    /\ arrival.branch = "learnUIDKnown"
    /\ ~call.ret
    /\ rgbLed = "amber"

----------------------------------------------------------------------------
(* Tag detection: the polling loop of keycard/service.go and the           *)
(* event-driven tracker of the other service version.                      *)

\* The tags that are put on the reader.
SeatedIDs == {<<169 + i>> : i \in 1..NumSeated}

\* A step outside the Service's handlers.
ServiceIdle ==
    /\ arrival' = NoArrival
    /\ published' = <<>>
    /\ UNCHANGED <<ctlVars, lifeVars>>
    /\ UNCHANGED <<masterLearningMode, learnMode, newUIDs, rgbLed, blinking,
                   blinkTask, blinkState, offTimers, linearLed, running>>

\* Somebody puts a tag on the reader.
CardPlaced(id) ==
    /\ seated = <<>>
    /\ seated' = id
    /\ handledSeated' = FALSE
    /\ detect' = "none"
    /\ UNCHANGED <<pc, currentCardUID>>
    /\ StoreIdle
    /\ ServiceIdle

\* The tag is taken off the reader.
CardRemoved ==
    /\ seated /= <<>>
    /\ seated' = <<>>
    /\ handledSeated' = FALSE
    /\ detect' = "none"
    /\ UNCHANGED <<pc, currentCardUID>>
    /\ StoreIdle
    /\ ServiceIdle

\* Service.pollForTag up to its call of waitForTagDeparture: StartDiscovery
\* or DetectTags fails, or DetectTags reports no tag, or it reports the
\* seated tag, which is handed to handleTagArrival.
pollForTag ==
    /\ alive
    /\ running
    /\ pc = "poll"
    /\ \/ /\ detect' = "error"
          /\ UNCHANGED <<seated, pc, currentCardUID, handledSeated>>
          /\ StoreIdle
          /\ ServiceIdle
       \/ /\ seated = <<>>
          /\ detect' = "empty"
          /\ UNCHANGED <<seated, pc, currentCardUID, handledSeated>>
          /\ StoreIdle
          /\ ServiceIdle
       \/ /\ seated /= <<>>
          /\ detect' = "tag"
          /\ handleTagArrival(seated)
          /\ pc' = "wait"
          /\ handledSeated' = TRUE
          /\ UNCHANGED <<seated, currentCardUID>>
          /\ UNCHANGED <<ctlVars, lifeVars>>

\* The test as it would be if a failed DetectTags call were no departure.
DepartedOnErrorNever == FALSE

\* waitForTagDeparture's test `err != nil || len(tags) == 0`, for a failed
\* DetectTags call.
DepartedOnError == TRUE

\* One iteration of Service.waitForTagDeparture: it returns when DetectTags
\* fails or reports no tag, and sleeps otherwise.
waitForTagDeparture ==
    /\ alive
    /\ running
    /\ pc = "wait"
    /\ \/ /\ detect' = "error"
          /\ pc' = IF DepartedOnError THEN "poll" ELSE "wait"
       \/ /\ seated = <<>>
          /\ detect' = "empty"
          /\ pc' = "poll"
       \/ /\ seated /= <<>>
          /\ detect' = "tag"
          /\ pc' = "wait"
    /\ UNCHANGED <<seated, currentCardUID, handledSeated>>
    /\ StoreIdle
    /\ ServiceIdle

\* Service.handleTagDetection for a TagArrival event of the seated tag.
handleTagDetection ==
    /\ alive
    /\ running
    /\ seated /= <<>>
    /\ detect' = "tag"
    /\ UNCHANGED <<seated, pc>>
    /\ IF currentCardUID /= TagUID(seated)
       THEN /\ currentCardUID' = TagUID(seated)
            /\ handleTagArrival(seated)
            /\ handledSeated' = TRUE
            /\ UNCHANGED <<ctlVars, lifeVars>>
       ELSE /\ UNCHANGED <<currentCardUID, handledSeated>>
            /\ StoreIdle
            /\ ServiceIdle

\* currentCardUID as it would be if a departure left it alone.
CurrentAfterDepartureKept == currentCardUID

\* currentCardUID after handleTagDeparture: cleared when it was not empty.
CurrentAfterDeparture ==
    IF currentCardUID /= <<>> THEN <<>> ELSE currentCardUID

\* Service.handleTagDeparture for a TagDeparture event, which the reader
\* sends once the tag has left.
handleTagDeparture ==
    /\ alive
    /\ running
    /\ seated = <<>>
    /\ detect' = "departure"
    /\ currentCardUID' = CurrentAfterDeparture
    /\ UNCHANGED <<seated, pc, handledSeated>>
    /\ StoreIdle
    /\ ServiceIdle

\* The event loop of Run receives an event that carries an error.
TagEventError ==
    /\ alive
    /\ running
    /\ detect' = "error"
    /\ UNCHANGED <<seated, pc, currentCardUID, handledSeated>>
    /\ StoreIdle
    /\ ServiceIdle

\* The process is stopped (Service.Stop) and started again: main builds a
\* new Service, whose NewAuthManager loads the two files.
Restart ==
    /\ running
    /\ alive' = TRUE
    /\ pre' = Memory
    /\ masterUIDs' = loadMasterUIDs(masterFile)
    /\ authorizedUIDs' = loadAuthorizedUIDs(authorizedFile)
    /\ call' = [op |-> "NewAuthManager", uid |-> <<>>, ret |-> FALSE, err |-> FALSE]
    /\ UNCHANGED <<masterFile, authorizedFile, faults, failedCalls>>
    /\ masterLearningMode' = FALSE
    /\ learnMode' = FALSE
    /\ newUIDs' = <<>>
    /\ rgbLed' = "off"
    /\ blinking' = FALSE
    /\ blinkTask' = "none"
    /\ blinkState' = FALSE
    /\ offTimers' = 0
    /\ UNCHANGED linearLed
    /\ published' = <<>>
    /\ running' = FALSE
    /\ arrival' = NoArrival
    /\ pc' = "poll"
    /\ currentCardUID' = <<>>
    /\ detect' = "none"
    /\ handledSeated' = FALSE
    /\ UNCHANGED seated
    /\ UNCHANGED <<ctlVars, lifeVars>>

NextPoll ==
    \/ Run
    \/ \E id \in SeatedIDs : CardPlaced(id)
    \/ CardRemoved
    \/ pollForTag
    \/ waitForTagDeparture
    \/ FlashTimer
    \/ BlinkTick
    \/ BlinkExit

\* The polling service with tags put on and taken off the reader.
SpecPoll == Init /\ [][NextPoll]_vars

NextEvents ==
    \/ Run
    \/ \E id \in SeatedIDs : CardPlaced(id)
    \/ CardRemoved
    \/ handleTagDetection
    \/ handleTagDeparture
    \/ TagEventError
    \/ FlashTimer
    \/ BlinkTick
    \/ BlinkExit

\* The event-driven service with tags put on and taken off the reader.
SpecEvents == Init /\ [][NextEvents]_vars

NextRestarts ==
    \/ NextPoll
    \/ Restart

\* The polling service, stopped and started again at any time.
SpecRestarts == Init /\ [][NextRestarts]_vars

\* The last step was a detection call or tag event that succeeded, so the
\* pipeline has seen who is on the reader now.
Seen == detect \in {"tag", "empty", "departure"}

\* The seated tag is exchanged for another one with no moment in which the
\* reader is empty.
CardSwapped(id) ==
    /\ seated /= <<>>
    /\ id /= seated
    /\ seated' = id
    /\ handledSeated' = FALSE
    /\ detect' = "none"
    /\ UNCHANGED <<pc, currentCardUID>>
    /\ StoreIdle
    /\ ServiceIdle

\* The physical history of the reader, slow enough for the pipeline to see
\* every change: each change follows a successful detection.
History ==
    /\ Seen
    /\ \/ \E id \in SeatedIDs : CardPlaced(id)
       \/ CardRemoved
       \/ \E id \in SeatedIDs : CardSwapped(id)

\* pollForTag and waitForTagDeparture with no failing DetectTags call.
PollSeen == pollForTag /\ detect' /= "error"

WaitSeen == waitForTagDeparture /\ detect' /= "error"

NextPollHistory ==
    \/ Run
    \/ History
    \/ PollSeen
    \/ WaitSeen
    \/ FlashTimer
    \/ BlinkTick
    \/ BlinkExit

\* The polling pipeline on a history it sees, with no failing call.
SpecPollHistory == Init /\ [][NextPollHistory]_vars

NextEventsHistory ==
    \/ Run
    \/ History
    \/ handleTagDetection
    \/ handleTagDeparture
    \/ FlashTimer
    \/ BlinkTick
    \/ BlinkExit

\* The event-driven pipeline on a history it sees, with no error event.
SpecEventsHistory == Init /\ [][NextEventsHistory]_vars

----------------------------------------------------------------------------
(* The indicator controller (keycard/led.go, and the LP5662 driver): its   *)
(* owner calls On, Off, StartBlink and StopBlink; every StartBlink that    *)
(* finds blinking false starts a goroutine.  A goroutine is at "loop"      *)
(* before it evaluates its select statement, at "select" while it waits on *)
(* the channel it read there and on its ticker, and "done" after return.   *)

\* What a controller step leaves alone.
CtlRest ==
    UNCHANGED <<storeVars, detectVars, masterLearningMode, learnMode, newUIDs,
                blinkTask, blinkState, offTimers, linearLed, published,
                running, arrival, backend, fd, closes, mu, devOps,
                   ctxDone, stopPc, exited>>

\* LEDController.On / LP5662.On, called by the owner.
On ==
    /\ rgbLed' = Written("green")
    /\ quiet' = FALSE
    /\ lastCtl' = "On"
    /\ UNCHANGED <<blinking, blinkStop, closedChans, tasks>>
    /\ CtlRest

\* LEDController.Off / LP5662.Off, called by the owner.
Off ==
    /\ rgbLed' = Written("off")
    /\ lastCtl' = "Off"
    /\ UNCHANGED <<blinking, blinkStop, closedChans, tasks, quiet>>
    /\ CtlRest

\* StartBlink: nothing when blinking; else a new channel and a new goroutine.
StartBlink ==
    /\ lastCtl' = "StartBlink"
    /\ quiet' = FALSE
    /\ IF blinking
       THEN UNCHANGED <<blinking, blinkStop, tasks>>
       ELSE /\ Len(tasks) < MaxBlinks
            /\ blinking' = TRUE
            /\ blinkStop' = Len(tasks) + 1
            /\ tasks' = Append(tasks, [pc |-> "loop", ch |-> Len(tasks) + 1,
                                       state |-> FALSE])
    /\ UNCHANGED <<rgbLed, closedChans>>
    /\ CtlRest

\* StopBlink: nothing when not blinking; else close(blinkStop).  It does not
\* wait for the goroutine.
StopBlink ==
    /\ lastCtl' = "StopBlink"
    /\ quiet' = TRUE
    /\ IF ~blinking
       THEN UNCHANGED <<blinking, closedChans>>
       ELSE /\ closedChans' = closedChans \cup {blinkStop}
            /\ blinking' = FALSE
    /\ UNCHANGED <<rgbLed, blinkStop, tasks>>
    /\ CtlRest

\* Goroutine i evaluates `case <-l.blinkStop`: it reads the field without
\* holding the mutex, so it gets the value now in the field or the value it
\* has seen last.
TaskEnter(i) ==
    /\ i \in 1..Len(tasks)
    /\ tasks[i].pc = "loop"
    /\ \E c \in {tasks[i].ch, blinkStop} :
          tasks' = [tasks EXCEPT ![i].pc = "select", ![i].ch = c]
    /\ lastCtl' = "taskEnter"
    /\ UNCHANGED <<rgbLed, blinking, blinkStop, closedChans, quiet>>
    /\ CtlRest

\* Goroutine i takes the ticker case: Off() or On() by its local state.
TaskTick(i) ==
    /\ i \in 1..Len(tasks)
    /\ tasks[i].pc = "select"
    /\ rgbLed' = Written(IF tasks[i].state THEN "off" ELSE "green")
    /\ lastCtl' = IF tasks[i].state THEN "taskOff" ELSE "taskOn"
    /\ tasks' = [tasks EXCEPT ![i].pc = "loop", ![i].state = ~tasks[i].state]
    /\ UNCHANGED <<blinking, blinkStop, closedChans, quiet>>
    /\ CtlRest

\* Goroutine i takes the case of its closed channel: Off(), return.
TaskStop(i) ==
    /\ i \in 1..Len(tasks)
    /\ tasks[i].pc = "select"
    /\ tasks[i].ch \in closedChans
    /\ rgbLed' = Written("off")
    /\ lastCtl' = "taskExit"
    /\ tasks' = [tasks EXCEPT ![i].pc = "done"]
    /\ UNCHANGED <<blinking, blinkStop, closedChans, quiet>>
    /\ CtlRest

\* The pending timers as they would be if Flash stopped the earlier one.
FlashCancelsPending == IF offTimers > 0 THEN offTimers ELSE offTimers + 1

\* The pending timers after Flash: time.AfterFunc adds one and its handle is
\* dropped, so no earlier timer is stopped.
TimersAfterFlash == offTimers + 1

\* LEDController.Flash / LP5662.Flash, called by the owner: On(), then a timer
\* whose callback calls Off().
Flash ==
    /\ offTimers < MaxFlashes
    /\ rgbLed' = Written("green")
    /\ offTimers' = TimersAfterFlash
    /\ quiet' = FALSE
    /\ lastCtl' = "Flash"
    /\ UNCHANGED <<blinking, blinkStop, closedChans, tasks>>
    /\ UNCHANGED <<storeVars, detectVars, masterLearningMode, learnMode,
                   newUIDs, blinkTask, blinkState, linearLed, published,
                   running, arrival, backend, fd, closes, mu, devOps,
                   ctxDone, stopPc, exited>>

\* LEDController.Close: StopBlink(), Off(), return nil.
CloseScript ==
    /\ backend = "script"
    /\ closedChans' = IF blinking THEN closedChans \cup {blinkStop}
                      ELSE closedChans
    /\ blinking' = FALSE
    /\ rgbLed' = Written("off")
    /\ quiet' = TRUE
    /\ lastCtl' = "Close"
    /\ UNCHANGED <<fd, blinkStop, tasks>>

\* LP5662.Close: under the mutex, setColorLocked(ColorOff) with its error
\* dropped, then unix.Close(l.fd), whose error is returned.  It does not
\* call StopBlink and keeps no record of having closed the descriptor.
CloseLP5662 ==
    /\ backend = "lp5662"
    /\ rgbLed' = Written("off")
    /\ fd' = "closed"
    /\ lastCtl' = IF fd = "open" THEN "Close" ELSE "CloseFailed"
    /\ UNCHANGED <<blinking, blinkStop, closedChans, tasks, quiet>>

\* RGBLed.Close, called by the owner.
Close ==
    /\ closes < MaxCloses
    /\ closes' = closes + 1
    /\ CloseScript \/ CloseLP5662
    /\ UNCHANGED <<backend, mu, devOps, ctxDone, stopPc, exited>>
    /\ UNCHANGED <<storeVars, detectVars, masterLearningMode, learnMode,
                   newUIDs, blinkTask, blinkState, offTimers, linearLed,
                   published, running, arrival>>

\* One controller of either implementation, just constructed.
InitCtl ==
    /\ masterFile = NoFile
    /\ authorizedFile = NoFile
    /\ masterUIDs = <<>>
    /\ authorizedUIDs = <<>>
    /\ alive = TRUE
    /\ InitService
    /\ \/ backend = "script" /\ fd = "none"
       \/ backend = "lp5662" /\ fd = "open"

NextBlink ==
    \/ On
    \/ Off
    \/ Flash
    \/ FlashTimer
    \/ StartBlink
    \/ StopBlink
    \/ \E i \in 1..MaxBlinks : TaskEnter(i)
    \/ \E i \in 1..MaxBlinks : TaskTick(i)
    \/ \E i \in 1..MaxBlinks : TaskStop(i)
    \/ Close

\* One indicator controller, its owner and its blink goroutines.
SpecBlink == InitCtl /\ [][NextBlink]_vars

\* The mutex as it would be if execScript ran under it.
LockedScript(a) == mu = "free" /\ mu' = a

\* What a device operation of the script backend does with the mutex on
\* entry: LEDController.On and Off call execScript without taking it.
LockScript(a) == UNCHANGED mu

\* Caller a enters a device operation with colour c.  LP5662.SetColor takes
\* the mutex first.
DevBegin(a, c) ==
    /\ devOps[a] = "idle"
    /\ IF backend = "lp5662" THEN mu = "free" /\ mu' = a ELSE LockScript(a)
    /\ devOps' = [devOps EXCEPT ![a] = c]
    /\ lastCtl' = "devBegin"
    /\ UNCHANGED <<rgbLed, blinking, blinkStop, closedChans, tasks, quiet,
                   backend, fd, closes, ctxDone, stopPc, exited>>
    /\ UNCHANGED <<storeVars, detectVars, masterLearningMode, learnMode,
                   newUIDs, blinkTask, blinkState, offTimers, linearLed,
                   published, running, arrival>>

\* The device operation of caller a returns: the write has taken effect and
\* a mutex held by a is released.
DevEnd(a) ==
    /\ devOps[a] /= "idle"
    /\ rgbLed' = Written(devOps[a])
    /\ devOps' = [devOps EXCEPT ![a] = "idle"]
    /\ mu' = IF mu = a THEN "free" ELSE mu
    /\ lastCtl' = "devEnd"
    /\ UNCHANGED <<blinking, blinkStop, closedChans, tasks, quiet,
                   backend, fd, closes, ctxDone, stopPc, exited>>
    /\ UNCHANGED <<storeVars, detectVars, masterLearningMode, learnMode,
                   newUIDs, blinkTask, blinkState, offTimers, linearLed,
                   published, running, arrival>>

NextDevice ==
    \/ \E a \in Callers : \E c \in Colours(a) : DevBegin(a, c)
    \/ \E a \in Callers : DevEnd(a)

\* The device operations of one controller, each with a begin and an end,
\* issued by its three kinds of caller.
SpecDevice == InitCtl /\ [][NextDevice]_vars

----------------------------------------------------------------------------
(* Shutdown.  main starts a goroutine that calls Service.Stop when a signal *)
(* arrives, and then calls Service.Run; when Run returns, main returns and  *)
(* the process, with every goroutine and timer in it, is gone.              *)

\* What a step of Stop or of Run's shutdown path leaves alone.
LifeRest ==
    /\ StoreIdle
    /\ arrival' = NoArrival
    /\ published' = <<>>
    /\ detect' = "none"
    /\ UNCHANGED <<masterLearningMode, learnMode, newUIDs, blinkState,
                   offTimers, linearLed>>
    /\ UNCHANGED <<seated, currentCardUID, handledSeated>>
    /\ UNCHANGED <<blinkStop, closedChans, tasks, quiet, lastCtl, backend,
                   mu, devOps>>

\* Service.Stop, first statement: s.cancel().
StopCancel ==
    /\ ~exited
    /\ stopPc = "idle"
    /\ ctxDone' = TRUE
    /\ stopPc' = "close"
    /\ UNCHANGED <<rgbLed, blinking, blinkTask, fd, closes, running, pc, exited>>
    /\ LifeRest

\* Service.Stop, the rest: s.rgbLed.Close(), then the reader and the redis
\* client are closed.  LEDController.Close stops the blink and switches off;
\* LP5662.Close switches off and closes the descriptor.
StopClose ==
    /\ ~exited
    /\ stopPc = "close"
    /\ stopPc' = "done"
    /\ closes' = closes + 1
    /\ IF backend = "script"
       THEN /\ blinking' = FALSE
            /\ blinkTask' = IF blinkTask = "running" THEN "stopping"
                                                     ELSE blinkTask
            /\ rgbLed' = "off"
            /\ UNCHANGED fd
       ELSE /\ rgbLed' = Written("off")
            /\ fd' = "closed"
            /\ UNCHANGED <<blinking, blinkTask>>
    /\ UNCHANGED <<ctxDone, running, pc, exited>>
    /\ LifeRest

\* Run's loop finds ctx.Done() closed and returns nil; main returns.
RunReturns ==
    /\ running
    /\ pc = "poll"
    /\ ctxDone
    /\ running' = FALSE
    /\ exited' = TRUE
    /\ UNCHANGED <<rgbLed, blinking, blinkTask, fd, closes, ctxDone, stopPc, pc>>
    /\ LifeRest

\* waitForTagDeparture finds ctx.Done() closed and returns; pollForTag
\* returns nil to the loop.
WaitCancelled ==
    /\ running
    /\ pc = "wait"
    /\ ctxDone
    /\ pc' = "poll"
    /\ UNCHANGED <<rgbLed, blinking, blinkTask, fd, closes, ctxDone, stopPc,
                   running, exited>>
    /\ LifeRest

\* main calls Run.
Start == ~exited /\ Run

\* The loop's iterations while ctx.Done() is open.
PollStep == ~exited /\ ~ctxDone /\ pollForTag

WaitStep == ~exited /\ ~ctxDone /\ waitForTagDeparture

\* Timers and the blink goroutine run as long as the process does.
TimerFires == ~exited /\ FlashTimer

BlinkTicks == ~exited /\ BlinkTick

BlinkExits == ~exited /\ BlinkExit

\* The steps of the Run goroutine once shutdown has been requested.
Shutdown == ~exited /\ (RunReturns \/ WaitCancelled)

NextLife ==
    \/ Start
    \/ Shutdown
    \/ StopCancel
    \/ StopClose
    \/ PollStep
    \/ WaitStep
    \/ \E id \in SeatedIDs : CardPlaced(id)
    \/ CardRemoved
    \/ TimerFires
    \/ BlinkTicks
    \/ BlinkExits

\* The polling service with its shutdown path, on either indicator backend.
SpecLife == InitCtl /\ [][NextLife]_vars

\* The Go scheduler lets main and the Run goroutine make progress.
SpecLifeFair == SpecLife /\ WF_vars(Start) /\ WF_vars(Shutdown)

\* The event loop of Run finds the tag event channel closed: it returns an
\* error, and main exits with status 1.
EventChannelClosed ==
    /\ ~exited
    /\ running
    /\ running' = FALSE
    /\ exited' = TRUE
    /\ UNCHANGED <<rgbLed, blinking, blinkTask, fd, closes, ctxDone, stopPc, pc>>
    /\ LifeRest

NextEventsLife ==
    \/ Start
    \/ Shutdown
    \/ StopCancel
    \/ StopClose
    \/ EventChannelClosed
    \/ handleTagDetection
    \/ handleTagDeparture
    \/ TagEventError
    \/ \E id \in SeatedIDs : CardPlaced(id)
    \/ CardRemoved
    \/ TimerFires
    \/ BlinkTicks
    \/ BlinkExits

\* The event-driven service with its shutdown path.
SpecEventsLife == InitCtl /\ [][NextEventsLife]_vars

\* The detection layer hands one arrival to handleTagArrival.
Arrival(id) ==
    /\ handleTagArrival(id)
    /\ DetectIdle

NextService ==
    \/ Run
    \/ \E id \in TagIDs : Arrival(id)
    \/ FlashTimer
    \/ BlinkTick
    \/ BlinkExit

\* The service handling logical card arrivals.
SpecService == Init /\ [][NextService]_vars

\* The runtime fires every timer that is due and schedules the blink
\* goroutine; nobody is obliged to present a card.
SpecServiceFair ==
    SpecService /\ WF_vars(FlashTimer) /\ WF_vars(BlinkTick) /\ WF_vars(BlinkExit)

\* C12: in MasterLearning the arrival of any identifier, when SetMaster
\* returns no error, makes it the master, stops the blink, starts exactly one
\* granted flash, publishes nothing and leaves the machine in Normal mode; and
\* the flash stays on until its own flash timer fires: directly after that
\* arrival, a step that is neither an arrival nor the timer leaves the
\* indicator green.
C12_MasterLearnedWithFlash ==
    [][/\ (masterLearningMode /\ arrival'.branch /= "none" /\ ~call'.err) =>
            /\ call'.op = "SetMaster"
            /\ masterUIDs' = <<ToUpper(arrival'.uid)>>
            /\ ~blinking'
            /\ blinkTask' /= "running"
            /\ rgbLed' = "green"
            /\ offTimers' = offTimers + 1
            /\ published' = <<>>
            /\ ~masterLearningMode'
            /\ ~learnMode'
       /\ (/\ arrival.branch = "learnMaster"
           /\ arrival'.branch = "none"
           /\ offTimers' = offTimers) => rgbLed' = "green"]_vars

\* The machine is running in Normal mode.
Normal == running /\ ~masterLearningMode /\ ~learnMode

\* C13: the master presented in Normal mode moves the machine to
\* CardLearning with no store call and nothing published; a card that is not
\* yet authorized, presented in CardLearning and saved without error, is
\* authorized afterwards, is flashed, and the mode stays CardLearning; the
\* master presented in CardLearning returns the machine to Normal with every
\* card added in the session still authorized.
C13_LearningSession ==
    [][arrival'.branch /= "none" =>
        LET uid == arrival'.uid
        IN  /\ (Normal /\ IsMaster(uid)) =>
                  /\ learnMode'
                  /\ ~masterLearningMode'
                  /\ call' = NoCall
                  /\ UNCHANGED <<masterUIDs, authorizedUIDs,
                                 masterFile, authorizedFile>>
                  /\ published' = <<>>
            /\ (learnMode /\ ~masterLearningMode /\ ~IsAuthorized(uid)
                    /\ ~call'.err) =>
                  /\ ToUpper(uid) \in Range(authorizedUIDs')
                  /\ masterUIDs' = masterUIDs
                  /\ newUIDs' = Append(newUIDs, uid)
                  /\ rgbLed' = "green"
                  /\ offTimers' = offTimers + 1
                  /\ learnMode'
                  /\ ~masterLearningMode'
            /\ (learnMode /\ ~masterLearningMode /\ IsMaster(uid)) =>
                  /\ ~learnMode'
                  /\ ~masterLearningMode'
                  /\ \A i \in 1..Len(newUIDs) :
                        ToUpper(newUIDs[i]) \in Range(authorizedUIDs')]_vars

\* The master has just closed a learning session in which two cards were
\* added.
C13_Witness ==
    /\ arrival.branch = "exitLearnMode"
    /\ Normal
    /\ IsMaster(arrival.uid)
    /\ Len(authorizedUIDs) = 2
    /\ call = NoCall

\* C14: in Normal mode the arrival of an identifier that is neither the
\* master nor authorized makes no store call, changes neither memory nor the
\* files, publishes nothing, shows the denied colour with one flash timer, and
\* leaves the mode Normal.
C14_UnknownCardDenied ==
    [][(/\ arrival'.branch /= "none"
        /\ Normal
        /\ ~IsMaster(arrival'.uid)
        /\ ~IsAuthorized(arrival'.uid))
       => (/\ call' = NoCall
           /\ UNCHANGED <<masterUIDs, authorizedUIDs, masterFile, authorizedFile>>
           /\ published' = <<>>
           /\ rgbLed' = "red"
           /\ offTimers' = offTimers + 1
           /\ UNCHANGED <<masterLearningMode, learnMode, newUIDs, running>>)]_vars

\* An unknown card has just been denied by a store that has a master and an
\* authorized card.
C14_Witness ==
    /\ arrival.branch = "unauthorized"
    /\ Normal
    /\ HasMaster
    /\ GetAuthorizedCount >= 1
    /\ ~IsAuthorized(arrival.uid)
    /\ rgbLed = "red"

\* C15: in Normal mode the arrival of an authorized identifier that is not
\* the master shows the granted colour with one flash timer and calls
\* PublishAuth exactly once, for that identifier; no store call is made, mode
\* and store are unchanged and the service keeps running, whether PublishAuth
\* returned an error or not.
C15_AuthorizedCardGranted ==
    [][(/\ arrival'.branch /= "none"
        /\ Normal
        /\ IsAuthorized(arrival'.uid)
        /\ ~IsMaster(arrival'.uid))
       => (/\ arrival'.branch \in {"grantAccess", "grantAccessPublishFailed"}
           /\ rgbLed' = "green"
           /\ offTimers' = offTimers + 1
           /\ published' = <<arrival'.uid>>
           /\ call' = NoCall
           /\ UNCHANGED <<masterUIDs, authorizedUIDs, masterFile, authorizedFile>>
           /\ UNCHANGED <<masterLearningMode, learnMode, newUIDs, running>>)]_vars

\* An authorized card has just been granted while PublishAuth failed.
C15_Witness ==
    /\ arrival.branch = "grantAccessPublishFailed"
    /\ Normal
    /\ published = <<arrival.uid>>
    /\ rgbLed = "green"
    /\ ~IsMaster(arrival.uid)

\* C18: when the store call made for an arrival in MasterLearning or
\* CardLearning returns an error, both mode flags are as before, the presented
\* card is neither master nor authorized afterwards, and no flash is started;
\* and when the same card is presented again directly afterwards, the store
\* call is made again and, if it returns no error, the card is enrolled as
\* new, with a flash.
C18_FailedEnrollmentNotHappened ==
    [][/\ (arrival'.branch /= "none" /\ call'.err) =>
            /\ UNCHANGED <<masterLearningMode, learnMode>>
            /\ ToUpper(arrival'.uid) \notin Range(masterUIDs')
            /\ ToUpper(arrival'.uid) \notin Range(authorizedUIDs')
            /\ offTimers' = offTimers
            /\ rgbLed' /= "green"
       /\ (/\ arrival.branch /= "none"
           /\ call.err
           /\ arrival'.branch /= "none"
           /\ arrival'.uid = arrival.uid) =>
            /\ call'.op = call.op
            /\ call'.uid = call.uid
            /\ ~call'.err =>
                  /\ call.op = "AddAuthorized" => call'.ret
                  /\ rgbLed' = "green"
                  /\ offTimers' = offTimers + 1]_vars

\* C16: while the same tag stays on the reader, only its first detection
\* reaches handleTagArrival: once the seated tag has been handled, a step that
\* leaves it seated handles no arrival, makes no store call, publishes
\* nothing, starts no flash and changes neither mode flag, memory nor files,
\* also when a detection call fails in between.
C16_SeatedCardHandledOnce ==
    [][(handledSeated /\ seated' = seated) =>
          /\ arrival'.branch = "none"
          /\ call' = NoCall
          /\ published' = <<>>
          /\ offTimers' <= offTimers
          /\ UNCHANGED <<masterLearningMode, learnMode, newUIDs>>
          /\ UNCHANGED <<masterUIDs, authorizedUIDs, masterFile, authorizedFile>>]_vars

\* C17: a machine in CardLearning is still in CardLearning after every step
\* (arrival of another card, failed save, departure, failed detection call,
\* timer) except the arrival of the identifier that is the master, and that
\* arrival takes it to Normal.
C17_CardLearningExitOnlyByMaster ==
    [][(learnMode /\ ~masterLearningMode) =>
          IF arrival'.branch /= "none" /\ IsMaster(arrival'.uid)
          THEN ~learnMode' /\ ~masterLearningMode'
          ELSE learnMode' /\ ~masterLearningMode']_vars

\* Still in CardLearning after a save that did not reach the file and,
\* with the card still seated, a failed detection call.
C17_Witness ==
    /\ learnMode
    /\ detect = "error"
    /\ seated /= <<>>
    /\ pc = "poll"
    /\ loadAuthorizedUIDs(authorizedFile) /= authorizedUIDs

\* C11: a running machine whose store has no master is in MasterLearning
\* with the blink started, and a machine not yet running has handled no
\* arrival, so the mode and the blink are set before the first card is
\* handled; and a machine in Normal mode has a store with a master.
C11_NormalImpliesMaster ==
    /\ Normal => HasMaster
    /\ (running /\ ~HasMaster) =>
          /\ masterLearningMode
          /\ ~learnMode
          /\ blinking
          /\ blinkTask = "running"
    /\ ~running =>
          /\ arrival = NoArrival
          /\ ~masterLearningMode
          /\ ~learnMode

\* A restarted service that found a master file without a master record, and
\* is in MasterLearning, blinking, before any card was handled.
C11_Witness ==
    /\ running
    /\ ~HasMaster
    /\ masterLearningMode
    /\ blinking
    /\ masterFile.exists
    /\ arrival = NoArrival

\* The goroutines that wait on their ticker and on a channel nobody closed.
Toggling == {i \in 1..Len(tasks) :
                tasks[i].pc = "select" /\ tasks[i].ch \notin closedChans}

\* C19: after every sequence of StartBlink and StopBlink calls at most one
\* goroutine is toggling, and a StartBlink called while blinking starts no
\* goroutine.
C19_AtMostOneBlinkTask ==
    [][/\ Cardinality(Toggling') <= 1
       /\ (blinking /\ lastCtl' = "StartBlink") => tasks' = tasks]_vars

\* C20: once StopBlink has returned and the owner has switched nothing on
\* since, no goroutine switches the indicator on, and when every goroutine
\* has returned the indicator is off, whether a blink was running or not.
C20_StopBlinkLeavesOff ==
    quiet =>
        /\ lastCtl /= "taskOn"
        /\ (\A i \in 1..Len(tasks) : tasks[i].pc = "done") => rgbLed = "off"

\* C28: in CardLearning the arrival of an identifier that is not the master
\* and is already authorized changes neither memory nor the files, starts no
\* flash, shows neither the granted nor the denied colour, publishes nothing,
\* adds nothing to newUIDs, and the mode stays CardLearning.
C28_KnownCardInLearningIsNoOp ==
    [][(/\ arrival'.branch /= "none"
        /\ learnMode
        /\ ~masterLearningMode
        /\ ~IsMaster(arrival'.uid)
        /\ IsAuthorized(arrival'.uid))
       => (/\ UNCHANGED <<masterUIDs, authorizedUIDs, masterFile, authorizedFile>>
           /\ ~call'.err
           /\ offTimers' = offTimers
           /\ rgbLed' \notin {"green", "red"}
           /\ published' = <<>>
           /\ newUIDs' = newUIDs
           /\ UNCHANGED <<masterLearningMode, learnMode>>)]_vars

\* A card added earlier in the session was presented again: two cards are
\* authorized, one is on newUIDs, and the last step left both as they were.
C28_Witness ==
    /\ arrival.branch = "learnUIDKnown"
    /\ learnMode
    /\ IsAuthorized(arrival.uid)
    /\ ~IsMaster(arrival.uid)
    /\ Memory = pre
    /\ Len(newUIDs) >= 1
    /\ offTimers = 0

\* C30: PublishAuth is called only for an identifier that arrived while the
\* service was in Normal mode and that is, at the call, in the authorized set
\* and not the master; it is called once, for the identifier that arrived.
\* No step of the polling service (arrival, departure, failed detection,
\* failed save, timer, blink step, restart) publishes anything else.
C30_PublishOnlyAuthorizedInNormal ==
    [][published' /= <<>>
       => (/\ arrival'.branch /= "none"
           /\ published' = <<arrival'.uid>>
           /\ Normal
           /\ IsAuthorized(arrival'.uid)
           /\ ~IsMaster(arrival'.uid)
           /\ arrival'.uid \in Range(authorizedUIDs')
           /\ arrival'.uid \notin Range(masterUIDs'))]_vars

\* A card enrolled in an earlier learning session is detected by the polling
\* loop in Normal mode and PublishAuth is called for it.
C30_Witness ==
    /\ published /= <<>>
    /\ detect = "tag"
    /\ published = <<TagUID(seated)>>
    /\ Normal
    /\ HasMaster
    /\ TagUID(seated) \in Range(authorizedUIDs)

\* C26: a departure event leaves currentCardUID empty (it clears a non-empty
\* one and leaves an empty one as it is) and changes nothing else: not the
\* modes, the store, newUIDs, the indicators or the timers, and it publishes
\* nothing and handles no arrival.  Once currentCardUID is empty, the next
\* arrival event is handled as a new arrival whichever card it is, the one
\* that just left included.
C26_DepartureOnlyClearsCurrentCard ==
    [][/\ detect' = "departure"
          => (/\ currentCardUID' = <<>>
              /\ UNCHANGED <<masterUIDs, authorizedUIDs, masterFile,
                             authorizedFile, faults, alive>>
              /\ UNCHANGED <<masterLearningMode, learnMode, newUIDs, running>>
              /\ UNCHANGED <<rgbLed, linearLed, blinking, blinkTask, offTimers>>
              /\ published' = <<>>
              /\ arrival' = NoArrival
              /\ call' = NoCall)
       /\ (currentCardUID = <<>> /\ detect' = "tag")
          => (/\ arrival'.branch /= "none"
              /\ arrival'.uid = TagUID(seated)
              /\ currentCardUID' = TagUID(seated))]_vars

\* The master card started a learning session and was taken away; its
\* departure event has just been handled with the session still open.
C26_Witness ==
    /\ detect = "departure"
    /\ currentCardUID = <<>>
    /\ seated = <<>>
    /\ learnMode
    /\ HasMaster

\* C29: Flash on a controller whose device has not been closed turns the
\* indicator on at once, and every Flash adds one pending timer,
\* stopping none; the number of pending timers goes down only by a timer
\* firing, one at a time, and every firing turns the indicator off, also
\* while the timer of a later Flash is still pending; in particular the
\* indicator is off after the last pending timer has fired.
C29_FlashTimersNeverCancelled ==
    [][/\ (offTimers' > offTimers \/ (lastCtl /= "Flash" /\ lastCtl' = "Flash"))
          => /\ offTimers' = offTimers + 1
             /\ fd /= "closed" => rgbLed' = "green"
       /\ offTimers' < offTimers
          => (offTimers' = offTimers - 1 /\ rgbLed' = "off")]_vars

\* Two Flash calls and then the first timer: the indicator is off although
\* the second flash's timer has not fired yet.
C29_Witness ==
    /\ lastCtl = "Flash"
    /\ offTimers = 1
    /\ rgbLed = "off"
    /\ tasks = <<>>
    /\ closes = 0

\* The record l with every blank taken out.
StripSpaces(l) == SelectSeq(l, LAMBDA c : ~IsSpace(c))

\* C25: after NewAuthManager has loaded the files, a record matches the
\* identifier it spells when its blanks are left out: IsMaster holds for every
\* record of the master file and IsAuthorized for every record of the
\* authorized file, blanks between the hex bytes included.
C25_SpacedRecordsMatch ==
    call.op = "NewAuthManager" =>
        /\ \A i \in 1..Len(masterFile.lines) :
              StripSpaces(masterFile.lines[i]) /= <<>>
                  => IsMaster(StripSpaces(masterFile.lines[i]))
        /\ \A i \in 1..Len(authorizedFile.lines) :
              StripSpaces(authorizedFile.lines[i]) /= <<>>
                  => IsAuthorized(StripSpaces(authorizedFile.lines[i]))

\* A goroutine that has not returned and whose channel nobody has closed.
Unstopped(ts, closed) ==
    {i \in 1..Len(ts) : ts[i].pc /= "done" /\ ts[i].ch \notin closed}

\* C21: Close() on either implementation stops the blink (no goroutine is
\* left without a closed channel), leaves the indicator off, releases the
\* device descriptor and returns no error; a Close() that directly follows
\* another changes nothing of the controller and returns no error either.
C21_CloseStopsAndIsIdempotent ==
    [][closes' = closes + 1
       => (/\ Unstopped(tasks', closedChans') = {}
           /\ ~blinking'
           /\ rgbLed' = "off"
           /\ fd' /= "open"
           /\ lastCtl' = "Close"
           /\ lastCtl = "Close"
              => UNCHANGED <<rgbLed, fd, blinking, blinkStop, closedChans,
                             tasks>>)]_vars

\* C22: no two device operations of one controller are in progress at the
\* same time, whichever of the main path, the blink goroutine and a flash
\* timer callback issued them, and on either implementation.
C22_DeviceOpsSerialized ==
    Cardinality({a \in Callers : devOps[a] /= "idle"}) <= 1

\* C24: on the same history of the reader, seen change by change and with
\* no failing call, the polling pipeline hands handleTagArrival the arrivals
\* the event-driven pipeline hands it, which are one arrival per tag put on
\* the reader, in the order of the history: a tag that has been handled is
\* not handled again while it stays, and no tag leaves the reader, by
\* removal or by exchange, without having been handled.
C24_OneArrivalPerPlacement ==
    [][/\ (handledSeated /\ seated' = seated) => arrival'.branch = "none"
       /\ (seated /= <<>> /\ seated' /= seated) => handledSeated]_vars

\* The state in which the process leaves the indicator when it exits.
CleanExit ==
    /\ blinkTask = "none"
    /\ ~blinking
    /\ rgbLed = "off"
    /\ fd /= "open"

\* C23: once Stop() has been called Run returns, whatever the service was
\* doing; and when the process has exited no blink goroutine was still
\* running, the indicator is off and the device descriptor is closed.
C23_ShutdownCompletes ==
    /\ ctxDone ~> exited
    /\ [](exited => CleanExit)

\* C27: no error ends the event loop or disturbs the state: an error event
\* leaves the modes, newUIDs, currentCardUID, memory and files as they were;
\* an arrival whose store call fails leaves the modes, newUIDs and memory as
\* they were; an arrival whose PublishAuth fails does the same and leaves
\* the files too; after each of them Run is still running; and Run returns
\* only when cancel() has been called.
C27_NoErrorEndsTheLoop ==
    [][/\ detect' = "error"
          => (/\ UNCHANGED <<masterLearningMode, learnMode, newUIDs,
                             currentCardUID>>
              /\ UNCHANGED <<masterUIDs, authorizedUIDs, masterFile,
                             authorizedFile>>
              /\ running')
       /\ call'.err
          => (/\ UNCHANGED <<masterLearningMode, learnMode, newUIDs>>
              /\ UNCHANGED <<masterUIDs, authorizedUIDs>>
              /\ running')
       /\ arrival'.branch = "grantAccessPublishFailed"
          => (/\ UNCHANGED <<masterLearningMode, learnMode, newUIDs>>
              /\ UNCHANGED <<masterUIDs, authorizedUIDs, masterFile,
                             authorizedFile>>
              /\ running')
       /\ (running /\ ~running') => ctxDone]_vars

\* list is an initial part of longer.
IsPrefix(list, longer) ==
    /\ Len(list) <= Len(longer)
    /\ SubSeq(longer, 1, Len(list)) = list

\* C31: once there is a master and the service has left MasterLearning, no
\* step of the polling service (arrival, departure, failed detection, failed
\* save, timer, blink step) changes the master or takes an identifier off
\* the authorized list: the list only grows at its end, and only in the
\* handling of an arrival in CardLearning.
C31_MasterFixedAuthorizedGrows ==
    [][(running /\ HasMaster /\ ~masterLearningMode)
       => (/\ masterUIDs' = masterUIDs
           /\ IsPrefix(authorizedUIDs, authorizedUIDs')
           /\ authorizedUIDs' /= authorizedUIDs
              => (learnMode /\ arrival'.branch /= "none"))]_vars

\* A card has been enrolled in a learning session, the session has been
\* closed with the master, and the card has been taken off the reader.
C31_Witness ==
    /\ Normal
    /\ HasMaster
    /\ Len(authorizedUIDs) >= 1
    /\ detect = "empty"
    /\ pc = "poll"
    /\ seated = <<>>

\* C32: while the service runs it is in MasterLearning exactly when the
\* store has no master, also after a SetMaster call that returned an error.
C32_MasterLearningIffNoMaster ==
    running => (masterLearningMode <=> ~HasMaster)

\* The step is an indicator call (On or Off) made by a blink goroutine.
TaskCall ==
    /\ tasks' /= tasks
    /\ lastCtl' \in {"taskOn", "taskOff", "taskExit"}

\* C33: when StopBlink has returned, the blink goroutine has made its last
\* indicator call: as long as no new blink has been started, no goroutine
\* calls On or Off, so nothing the caller switches on after StopBlink is
\* switched off or toggled by the stopped goroutine.
C33_NoTaskCallAfterStopBlink ==
    [][~blinking => ~TaskCall]_vars

\* The step makes a device write from a blink goroutine, from a flash timer
\* callback (the timer count goes down) or from a Flash call (it goes up).
DeviceTouched ==
    \/ TaskCall
    \/ offTimers' /= offTimers

\* C34: once Close has released the descriptor, nothing writes to the device
\* any more: no blink goroutine, no flash timer callback, and no Flash of a
\* handler that runs beside Stop.
C34_NoWriteAfterClose ==
    [][fd = "closed" => ~DeviceTouched]_vars

\* The step handles a card arrival.
Handled == arrival'.branch /= "none"

\* C35: when from some moment on no further arrival is handled, the RGB
\* indicator is off again after the last handled arrival, whatever its
\* outcome was: the colour shown during the lookup does not stay on for
\* ever.
C35_IndicatorReturnsToOff ==
    <>[][~Handled]_vars => []<>(rgbLed = "off")

====
